---- MODULE Spec2Model ----
(***************************************************************************)
(* Model of scripts/raw_json_downloads: the per-source throttle, the       *)
(* retry loop around one HTTP attempt, the response classifier, the year   *)
(* loop of download_dataset and the batch driver run_all.                  *)
(*                                                                         *)
(* Time is counted in ticks of 0.2 s, the largest unit that divides every  *)
(* delay of RATE_LIMIT_SECONDS and the 1 s base of the backoff.            *)
(***************************************************************************)
EXTENDS Integers, Sequences, FiniteSets, TLC

(***************************************************************************)
(* Bounds of the model.                                                    *)
(***************************************************************************)
\* datasets of the catalog group that run_all iterates over
MaxDatasets == 2
\* years of one process in which the upstream may answer anything at all
MaxFaultYears == 1
\* ticks one HTTP exchange may take
MaxLatency == 1
\* ticks time.sleep may overrun the requested duration
MaxOversleep == 1
\* fields in the query of a URL handed to _set_period_params
MaxParams == 3

(***************************************************************************)
(* Program constants (_common.py:17-31).                                   *)
(***************************************************************************)
START_YEAR == 1995
END_YEAR == 2026
\* a retry budget one attempt short
MAX_ATTEMPTS_short == 6 - 1
MAX_ATTEMPTS == 6
\* a retry set that also holds 404
RETRYABLE_STATUS_CODES_404 == {404, 429, 500, 502, 503, 504}
RETRYABLE_STATUS_CODES == {429, 500, 502, 503, 504}

\* Python's None where the code holds an optional number
None == -1

SupportedSources == {"fred", "bls", "coingecko", "oecd", "ecb", "census", "imf"}
\* one name stands for every source_type without an entry in the tables
UnknownSource == "worldbank"
SourceTypes == SupportedSources \cup {UnknownSource}

\* RATE_LIMIT_SECONDS.get(source_type, 0.6), in ticks
RATE_LIMIT_SECONDS(source_type) ==
    CASE source_type = "fred" -> 3
      [] source_type = "bls" -> 4
      [] source_type = "coingecko" -> 8
      [] source_type = "oecd" -> 6
      [] source_type = "ecb" -> 4
      [] source_type = "census" -> 4
      [] source_type = "imf" -> 5
      [] OTHER -> 3

(***************************************************************************)
(* JSON values as the decoded payloads carry them: a record tagged with    *)
(* its Python type.                                                        *)
(***************************************************************************)
JNull == [type |-> "null"]
JNum(n) == [type |-> "num", n |-> n]
JStr(s) == [type |-> "str", s |-> s]
JList(elems) == [type |-> "list", elems |-> elems]
JDict(items) == [type |-> "dict", items |-> items]
NoItems == [k \in {} |-> JNull]

\* dict.get(key, default)
DictGet(d, key, default) ==
    IF key \in DOMAIN d.items THEN d.items[key] ELSE default

\* Python truth value of a decoded JSON value (`not series`)
Truthy(v) ==
    CASE v.type = "null" -> FALSE
      [] v.type = "num" -> v.n # 0
      [] v.type = "str" -> v.s # ""
      [] v.type = "list" -> Len(v.elems) > 0
      [] v.type = "dict" -> DOMAIN v.items # {}

\* the outcome of a Python expression: a value or a raised exception
Returns(v) == [raises |-> "", value |-> v]
Raises(cls) == [raises |-> cls, value |-> FALSE]

\* the bls branch looking at the series list only, never at its data
BlsNoData_series_only(payload) ==
    LET results == DictGet(payload, "Results", JDict(NoItems)) IN
    IF results.type # "dict" THEN Raises("AttributeError")
    ELSE LET series == DictGet(results, "series", JList(<<>>)) IN
         Returns(~Truthy(series))

\* the bls branch of _is_no_data_response, payload being a dict
BlsNoData(payload) ==
    LET results == DictGet(payload, "Results", JDict(NoItems)) IN
    IF results.type # "dict" THEN Raises("AttributeError")
    ELSE LET series == DictGet(results, "series", JList(<<>>)) IN
         IF ~Truthy(series) THEN Returns(TRUE)
         ELSE IF series.type = "dict" THEN Raises("KeyError")
         ELSE IF series.type = "num" THEN Raises("TypeError")
         ELSE IF series.type = "str" THEN Raises("AttributeError")
         ELSE LET first == series.elems[1] IN
              IF first.type # "dict" THEN Raises("AttributeError")
              ELSE LET data == DictGet(first, "data", JList(<<>>)) IN
                   Returns(data.type = "list" /\ Len(data.elems) = 0)

(***************************************************************************)
(* Exceptions: the class, the status_code attribute of                     *)
(* RetryableRequestError, str(exception), and the attempt that raised it.  *)
(***************************************************************************)
NoException == [cls |-> "None", status_code |-> None, text |-> <<>>, attempt |-> 0]

RetryableRequestError(status_code, attempt) ==
    [cls |-> "RetryableRequestError", status_code |-> status_code,
     text |-> <<"retryable status code ", status_code>>, attempt |-> attempt]

RequestException(attempt) ==
    [cls |-> "RequestException", status_code |-> None,
     text |-> <<"Connection aborted.">>, attempt |-> attempt]

\* an exception of any class outside the retried ones
OtherException(attempt) ==
    [cls |-> "Exception", status_code |-> None,
     text |-> <<"unexpected failure">>, attempt |-> attempt]

(***************************************************************************)
(* Classification of the outcome of one year (_common.py:277-396).         *)
(***************************************************************************)
Classification(status, error_type, recommended_action, message) ==
    [status |-> status, error_type |-> error_type,
     recommended_action |-> recommended_action, message |-> message]

\* an exception branch asking to inspect the response of a rate-limited year
ClassifyException_inspect(exception) ==
    IF exception.cls = "RetryableRequestError" /\ exception.status_code = 429
    THEN Classification("error", "rate_limited", "inspect_response",
                        <<"Rate limit persisted after retries.">>)
    ELSE IF exception.cls = "RetryableRequestError"
            /\ exception.status_code \in {500, 502, 503, 504}
    THEN Classification("error", "upstream_server_error", "retry_later",
                        <<"Upstream server errors persisted after retries.">>)
    ELSE Classification("error", "transient_retries_exhausted", "retry_later",
                        exception.text)

\* _common.py:305-326: the branch of _classify_result for a captured exception
ClassifyException(exception) ==
    IF exception.cls = "RetryableRequestError" /\ exception.status_code = 429
    THEN Classification("error", "rate_limited", "retry_later",
                        <<"Rate limit persisted after retries.">>)
    ELSE IF exception.cls = "RetryableRequestError"
            /\ exception.status_code \in {500, 502, 503, 504}
    THEN Classification("error", "upstream_server_error", "retry_later",
                        <<"Upstream server errors persisted after retries.">>)
    ELSE Classification("error", "transient_retries_exhausted", "retry_later",
                        exception.text)

\* the empty check with census counting the header row as data
_is_no_data_response_header(source_type, payload) ==
    IF source_type = "fred" /\ payload.type = "dict"
    THEN LET obs == DictGet(payload, "observations", JNull) IN
         Returns(obs.type = "list" /\ Len(obs.elems) = 0)
    ELSE IF source_type = "bls" /\ payload.type = "dict"
    THEN BlsNoData(payload)
    ELSE IF source_type = "coingecko" /\ payload.type = "dict"
    THEN LET prices == DictGet(payload, "prices", JNull) IN
         Returns(prices.type = "list" /\ Len(prices.elems) = 0)
    ELSE IF source_type = "census" /\ payload.type = "list"
    THEN Returns(Len(payload.elems) <= 2)
    ELSE Returns(FALSE)

_is_no_data_response(source_type, payload) ==
    IF source_type = "fred" /\ payload.type = "dict"
    THEN LET obs == DictGet(payload, "observations", JNull) IN
         Returns(obs.type = "list" /\ Len(obs.elems) = 0)
    ELSE IF source_type = "bls" /\ payload.type = "dict"
    THEN BlsNoData(payload)
    ELSE IF source_type = "coingecko" /\ payload.type = "dict"
    THEN LET prices == DictGet(payload, "prices", JNull) IN
         Returns(prices.type = "list" /\ Len(prices.elems) = 0)
    ELSE IF source_type = "census" /\ payload.type = "list"
    THEN Returns(Len(payload.elems) <= 1)
    ELSE Returns(FALSE)

\* the status branches treating only the retried 5xx codes as server errors
ClassifyStatus_listed_5xx(source_type, status_code, payload) ==
    IF status_code = None
    THEN Classification("error", "malformed_or_missing_config", "fix_request",
                        <<"Missing required dataset URL or configuration.">>)
    ELSE IF 200 <= status_code /\ status_code < 300
    THEN LET empty == _is_no_data_response(source_type, payload) IN
         IF empty.raises # "" THEN [raised |-> empty.raises]
         ELSE IF empty.value
         THEN Classification("error", "no_data_in_range", "accept_or_change_time_range",
                  <<"Request succeeded but the API returned no data for this year.">>)
         ELSE Classification("ok", "", "none", <<"Success">>)
    ELSE IF status_code = 400
    THEN Classification("error", "malformed_request", "fix_request",
                        <<"API rejected request format or parameters.">>)
    ELSE IF status_code \in {401, 403}
    THEN Classification("error", "auth_or_access", "check_api_key_or_permissions",
                        <<"Authentication/authorization failed.">>)
    ELSE IF status_code = 404
    THEN Classification("error", "dataset_not_found", "fix_request",
                        <<"Dataset endpoint or series was not found.">>)
    ELSE IF status_code = 429
    THEN Classification("error", "rate_limited", "retry_later",
                        <<"Rate limit hit after retries.">>)
    ELSE IF status_code \in {500, 502, 503, 504}
    THEN Classification("error", "upstream_server_error", "retry_later",
                        <<"Upstream server error after retries.">>)
    ELSE Classification("error", "unexpected_status", "inspect_response",
                        <<"Unexpected status code ", status_code>>)

\* _common.py:328-396: the branches of _classify_result without an exception;
\* [raised |-> class] when _is_no_data_response raises
ClassifyStatus(source_type, status_code, payload) ==
    IF status_code = None
    THEN Classification("error", "malformed_or_missing_config", "fix_request",
                        <<"Missing required dataset URL or configuration.">>)
    ELSE IF 200 <= status_code /\ status_code < 300
    THEN LET empty == _is_no_data_response(source_type, payload) IN
         IF empty.raises # "" THEN [raised |-> empty.raises]
         ELSE IF empty.value
         THEN Classification("error", "no_data_in_range", "accept_or_change_time_range",
                  <<"Request succeeded but the API returned no data for this year.">>)
         ELSE Classification("ok", "", "none", <<"Success">>)
    ELSE IF status_code = 400
    THEN Classification("error", "malformed_request", "fix_request",
                        <<"API rejected request format or parameters.">>)
    ELSE IF status_code \in {401, 403}
    THEN Classification("error", "auth_or_access", "check_api_key_or_permissions",
                        <<"Authentication/authorization failed.">>)
    ELSE IF status_code = 404
    THEN Classification("error", "dataset_not_found", "fix_request",
                        <<"Dataset endpoint or series was not found.">>)
    ELSE IF status_code = 429
    THEN Classification("error", "rate_limited", "retry_later",
                        <<"Rate limit hit after retries.">>)
    ELSE IF 500 <= status_code /\ status_code < 600
    THEN Classification("error", "upstream_server_error", "retry_later",
                        <<"Upstream server error after retries.">>)
    ELSE Classification("error", "unexpected_status", "inspect_response",
                        <<"Unexpected status code ", status_code>>)

\* the classifier looking at the status code before the exception
_classify_result_status_first(source_type, status_code, payload, exception) ==
    IF status_code # None THEN ClassifyStatus(source_type, status_code, payload)
    ELSE IF exception # NoException THEN ClassifyException(exception)
    ELSE ClassifyStatus(source_type, status_code, payload)

\* _common.py:299-396: an exception wins over the status code
_classify_result(source_type, status_code, payload, exception) ==
    IF exception # NoException THEN ClassifyException(exception)
    ELSE ClassifyStatus(source_type, status_code, payload)

HasRaised(result) == "raised" \in DOMAIN result


Years == START_YEAR..END_YEAR

(***************************************************************************)
(* Time.                                                                   *)
(***************************************************************************)
Min(a, b) == IF a < b THEN a ELSE b
Max(a, b) == IF a > b THEN a ELSE b

\* the longest delay any throttle decision compares against
AgeCap == RATE_LIMIT_SECONDS("coingecko")

\* d ticks pass: every recorded timestamp is d further in the past
Elapse(ts, d) == [s \in DOMAIN ts |-> IF ts[s] = None THEN None ELSE Min(ts[s] + d, AgeCap)]

\* time.sleep(d) suspends for at least d
SleepTimes(d) == d..(d + MaxOversleep)

\* a wait that stops one tick early
ThrottleWait_early(source_type, last) ==
    LET min_delay == RATE_LIMIT_SECONDS(source_type)
        elapsed == last
    IN  IF last # None /\ elapsed < min_delay - 1 THEN min_delay - elapsed - 1 ELSE 0

\* the duration _throttle asks time.sleep for, last being now - last
ThrottleWait(source_type, last) ==
    LET min_delay == RATE_LIMIT_SECONDS(source_type)
        elapsed == last
    IN  IF last # None /\ elapsed < min_delay THEN min_delay - elapsed ELSE 0

(***************************************************************************)
(* The upstream services.                                                  *)
(***************************************************************************)
\* a response body that is not JSON
RawBody == [type |-> "raw", text |-> "<html>Service</html>"]
ErrorBody == JDict([error |-> JStr("message")])
Row == JList(<<JStr("NAME"), JStr("value")>>)
Point == JDict([value |-> JStr("1.0")])

BlsBody(series) == JDict([status |-> JStr("REQUEST_SUCCEEDED"),
                          Results |-> JDict([series |-> series])])

\* a body with data for the year, as each service shapes it
DataBody(source_type) ==
    CASE source_type = "fred" -> JDict([observations |-> JList(<<Point>>)])
      [] source_type = "bls" -> BlsBody(JList(<<JDict([data |-> JList(<<Point>>)])>>))
      [] source_type = "coingecko" -> JDict([prices |-> JList(<<Row>>)])
      [] source_type = "census" -> JList(<<Row, Row>>)
      [] OTHER -> JDict([dataSets |-> JList(<<Point>>)])

\* a well-formed body without data for the year
EmptyBody(source_type) ==
    CASE source_type = "fred" -> JDict([observations |-> JList(<<>>)])
      [] source_type = "bls" -> BlsBody(JList(<<JDict([data |-> JList(<<>>)])>>))
      [] source_type = "coingecko" -> JDict([prices |-> JList(<<>>)])
      [] source_type = "census" -> JList(<<Row>>)
      [] OTHER -> JDict([dataSets |-> JList(<<>>)])

\* bodies with status 200 that do not follow the documented shape
OddBodies(source_type) ==
    IF source_type = "bls"
    THEN {JDict([status |-> JStr("REQUEST_NOT_PROCESSED"), Results |-> JList(<<>>)]),
          BlsBody(JList(<<JStr("LNS14000000")>>))}
    ELSE {}

Bodies(source_type) ==
    {DataBody(source_type), EmptyBody(source_type), RawBody} \cup OddBodies(source_type)

Response(status_code, body) == [kind |-> "response", status_code |-> status_code, body |-> body]
Failure(kind) == [kind |-> kind, status_code |-> None, body |-> JNull]

\* status codes outside RETRYABLE_STATUS_CODES that the services answer with
OtherStatusCodes == {400, 401, 403, 404, 501}

\* what one session.request can end in
Upstream(source_type) ==
    {Response(200, b) : b \in Bodies(source_type)}
    \cup {Response(c, ErrorBody) : c \in OtherStatusCodes \cup RETRYABLE_STATUS_CODES}
    \cup {Failure("RequestException"), Failure("Exception")}

Nominal(source_type) == Response(200, DataBody(source_type))

\* the years in which the upstream may deviate from the nominal answer
FaultYears == {START_YEAR}

(***************************************************************************)
(* Source adapters (_common.py:73-80, 161-274).                            *)
(***************************************************************************)
_ensure_json(response) ==
    IF response.body.type = "raw"
    THEN JDict([non_json_response |-> JStr(response.body.text),
                content_type |-> JStr("text/html")])
    ELSE response.body

\* the effective URL of the request of one year
Url(source_type, dataset_id, y) == <<source_type, dataset_id, y>>

\* request metadata a handler returns next to the payload
RequestMeta(source_type, dataset_id, y, code) ==
    IF source_type = "bls"
    THEN [url |-> <<"bls">>, status_code |-> code,
          payload |-> [seriesid |-> <<dataset_id>>, startyear |-> y, endyear |-> y]]
    ELSE [url |-> Url(source_type, dataset_id, y), status_code |-> code]

\* an imf adapter reporting a concrete dataset_id as not found
_imf_request_not_found(dataset_id, y) ==
    [payload |-> JDict([error |-> JStr(IF dataset_id = ""
                            THEN "Dataset URL is empty."
                            ELSE "IMF raw downloader expects a concrete IMF URL."),
                        year |-> JNum(y)]),
     request_meta |-> [url |-> <<dataset_id>>,
                       status_code |-> IF dataset_id = "" THEN None ELSE 404],
     status_code |-> IF dataset_id = "" THEN None ELSE 404]

\* _imf_request: (payload, request_meta, status_code), no HTTP call
_imf_request(dataset_id, y) ==
    [payload |-> JDict([error |-> JStr(IF dataset_id = ""
                            THEN "Dataset URL is empty."
                            ELSE "IMF raw downloader expects a concrete IMF URL."),
                        year |-> JNum(y)]),
     request_meta |-> [url |-> <<dataset_id>>, status_code |-> None],
     status_code |-> None]

\* the empty dict {} of request_meta
NoMeta == [k \in {} |-> None]

(***************************************************************************)
(* _set_period_params (_common.py:126-142).  parse_qs gives a dict from     *)
(* each name to the list of its values, in the order of first occurrence;  *)
(* urlencode(doseq=True) writes the dict back field by field.              *)
(***************************************************************************)
\* position of name in an ordered dict, 0 when it is not a key
DictIndex(d, name) ==
    IF \E i \in 1..Len(d) : d[i].name = name
    THEN CHOOSE i \in 1..Len(d) : d[i].name = name
    ELSE 0

\* d[name] = values
DictSet(d, name, values) ==
    IF DictIndex(d, name) = 0
    THEN Append(d, [name |-> name, values |-> values])
    ELSE [d EXCEPT ![DictIndex(d, name)].values = values]

RECURSIVE parse_qs(_)
parse_qs(query) ==
    IF query = <<>> THEN <<>>
    ELSE LET d == parse_qs(SubSeq(query, 1, Len(query) - 1))
             f == query[Len(query)]
             i == DictIndex(d, f[1])
         IN  IF i = 0 THEN Append(d, [name |-> f[1], values |-> <<f[2]>>])
             ELSE [d EXCEPT ![i].values = Append(@, f[2])]

RECURSIVE urlencode(_)
urlencode(d) ==
    IF d = <<>> THEN <<>>
    ELSE urlencode(SubSeq(d, 1, Len(d) - 1))
         \o [i \in 1..Len(d[Len(d)].values) |-> <<d[Len(d)].name, d[Len(d)].values[i]>>]

\* `tok in text`
Contains(text, tok) == \E i \in 1..Len(text) : text[i] = tok

\* str(year)
Str(y) ==
    CASE y = 1995 -> "1995"
      [] y = 2021 -> "2021"
      [] y = 2026 -> "2026"
      [] OTHER -> "YYYY"

\* a rewrite leaving an endPeriod that is already there
_set_period_params_keep_end(url, y) ==
    LET query == parse_qs(url.query)
        start_template == IF DictIndex(query, "startPeriod") = 0 THEN <<"YYYY">>
                          ELSE query[DictIndex(query, "startPeriod")].values[1]
        periods == IF Contains(start_template, "-Q")
                   THEN <<(<<Str(y), "-Q", "1">>), (<<Str(y), "-Q", "4">>)>>
                   ELSE IF Contains(start_template, "-M")
                   THEN <<(<<Str(y), "-M", "01">>), (<<Str(y), "-M", "12">>)>>
                   ELSE <<(<<Str(y)>>), (<<Str(y)>>)>>
        started == DictSet(query, "startPeriod", <<periods[1]>>)
    IN  [base |-> url.base,
         query |-> urlencode(IF DictIndex(started, "endPeriod") = 0
                             THEN DictSet(started, "endPeriod", <<periods[2]>>)
                             ELSE started)]

_set_period_params(url, y) ==
    LET query == parse_qs(url.query)
        start_template == IF DictIndex(query, "startPeriod") = 0 THEN <<"YYYY">>
                          ELSE query[DictIndex(query, "startPeriod")].values[1]
        periods == IF Contains(start_template, "-Q")
                   THEN <<(<<Str(y), "-Q", "1">>), (<<Str(y), "-Q", "4">>)>>
                   ELSE IF Contains(start_template, "-M")
                   THEN <<(<<Str(y), "-M", "01">>), (<<Str(y), "-M", "12">>)>>
                   ELSE <<(<<Str(y)>>), (<<Str(y)>>)>>
    IN  [base |-> url.base,
         query |-> urlencode(DictSet(DictSet(query, "startPeriod", <<periods[1]>>),
                                     "endPeriod", <<periods[2]>>))]

(***************************************************************************)
(* tenacity's Retrying as _request_with_retries configures it              *)
(* (_common.py:107-112), in ticks.                                         *)
(***************************************************************************)
WAIT_INITIAL == 5
WAIT_MAX == 150
WAIT_JITTER == 5
\* a retry predicate taking every exception
RetriedClasses_all == {"RequestException", "RetryableRequestError", "Exception"}
RetriedClasses == {"RequestException", "RetryableRequestError"}

\* a wait growing by the initial wait with each attempt
BackoffWait_linear(n, jitter) == Max(0, Min(WAIT_INITIAL * n + jitter, WAIT_MAX))

\* wait_exponential_jitter(initial=1, max=30) after attempt number n
BackoffWait(n, jitter) == Max(0, Min(WAIT_INITIAL * 2^(n - 1) + jitter, WAIT_MAX))

(***************************************************************************)
(* State of the throttle.                                                  *)
(***************************************************************************)
VARIABLES
    \* process-wide throttle map.  time.monotonic() has no defined origin and
    \* _throttle only ever uses now - last, so the map is held relative to
    \* the clock: _LAST_REQUEST_TS[s] is now - last for source s (None while
    \* s has no entry), saturated at AgeCap
    _LAST_REQUEST_TS,
    \* the _throttle call that has just returned: its source_type ("" when
    \* the last step was no _throttle call), the duration it asked time.sleep
    \* for, and the time between the previous entry of that source and the
    \* new one (None on the first call of the source)
    throttle_source, throttle_wait, throttle_gap,
    \* the source types on whose behalf this process calls _throttle
    throttle_callers

throttle_vars == <<_LAST_REQUEST_TS, throttle_source, throttle_wait, throttle_gap,
                   throttle_callers>>

\* the locals of _throttle are gone with the next step
ThrottleReturned ==
    /\ throttle_source' = ""
    /\ throttle_wait' = 0
    /\ throttle_gap' = None
    /\ UNCHANGED throttle_callers

(***************************************************************************)
(* _throttle (_common.py:89-97).                                           *)
(***************************************************************************)
\* a throttle keeping one timestamp for all source types
_throttle_shared(source_type) ==
    LET seen == {s \in DOMAIN _LAST_REQUEST_TS : _LAST_REQUEST_TS[s] # None}
        last == IF seen = {} THEN None
                ELSE CHOOSE a \in {_LAST_REQUEST_TS[s] : s \in seen} :
                        \A s \in seen : a <= _LAST_REQUEST_TS[s]
        wait == ThrottleWait(source_type, last)
    IN  \E took \in (IF wait > 0 THEN SleepTimes(wait) ELSE {0}) :
          /\ _LAST_REQUEST_TS' =
                [Elapse(_LAST_REQUEST_TS, took) EXCEPT ![source_type] = 0]
          /\ throttle_source' = source_type
          /\ throttle_wait' = wait
          /\ throttle_gap' = IF _LAST_REQUEST_TS[source_type] = None THEN None
                             ELSE Min(_LAST_REQUEST_TS[source_type] + took, AgeCap)
          /\ UNCHANGED throttle_callers

_throttle(source_type) ==
    LET last == _LAST_REQUEST_TS[source_type]
        wait == ThrottleWait(source_type, last)
    IN  \E took \in (IF wait > 0 THEN SleepTimes(wait) ELSE {0}) :
          /\ _LAST_REQUEST_TS' =
                [Elapse(_LAST_REQUEST_TS, took) EXCEPT ![source_type] = 0]
          /\ throttle_source' = source_type
          /\ throttle_wait' = wait
          /\ throttle_gap' = IF last = None THEN None ELSE Min(last + took, AgeCap)
          /\ UNCHANGED throttle_callers


(***************************************************************************)
(* State of the process.                                                   *)
(***************************************************************************)
VARIABLES
    \* run_all: the catalog group, the dataset counter and the run report
    catalog, total, run_report,
    \* control point of the process, and the exception that ended it
    pc, crash,
    \* download_dataset: loop variable, locals of the iteration, summary
    year, payload, request_meta, status_code, captured_error, summary,
    \* the files under data/raw_json and the order in which they were written
    year_files, summary_files, report_file, write_log,
    \* _request_with_retries: attempt number of the Retrying loop, duration
    \* of the backoff sleep that is due (0 when none is), number of backoff sleeps, of HTTP
    \* requests and of _throttle calls of the current call, the outcome of
    \* the last attempt, the status code of the last response (None without
    \* one) and whether every attempt so far returned that status code
    attempt, backoff, backoff_sleeps, http_attempts, throttle_calls,
    last_outcome, last_code, codes_agree,
    \* upstream: years already spent misbehaving, and whether this year is one
    fault_years, fault_now,
    \* one direct call of _classify_result: arguments and result
    classify_args, classify_result,
    \* a repeated call of download_dataset: which call is running (1 or 2),
    \* what the upstream answered to the attempts of the first call in the
    \* years of FaultYears, and the files the first call left
    run_no, upstream_log, first_files,
    \* one direct call of _set_period_params: arguments and result
    period_args, period_result

run_vars == <<catalog, total, run_report>>
loop_vars == <<year, payload, request_meta, status_code, captured_error, summary>>
file_vars == <<year_files, summary_files, report_file, write_log>>
retry_vars == <<attempt, backoff, backoff_sleeps, http_attempts, throttle_calls,
               last_outcome, last_code, codes_agree>>
fault_vars == <<fault_years, fault_now>>
classify_vars == <<classify_args, classify_result>>
rerun_vars == <<run_no, upstream_log, first_files>>
period_vars == <<period_args, period_result>>
vars == <<throttle_vars, run_vars, pc, crash, loop_vars, file_vars, retry_vars,
          fault_vars, classify_vars, rerun_vars, period_vars>>

(***************************************************************************)
(* download_dataset and run_all.                                           *)
(***************************************************************************)
Metadata(i) == [dataset |-> i, source_type |-> catalog.type,
                dataset_id |-> catalog.datasets[i],
                start_year |-> START_YEAR, end_year |-> END_YEAR]

\* a writer opening the path with mode "a": an existing file keeps its text
WriteFile_append(dir, name, data) ==
    [n \in DOMAIN dir \cup {name} |->
        IF n # name THEN dir[n]
        ELSE IF name \in DOMAIN dir THEN [kept |-> dir[name], appended |-> data]
        ELSE data]

\* _write_json opens the path with mode "w": the file is created or replaced
WriteFile(dir, name, data) ==
    [n \in DOMAIN dir \cup {name} |-> IF n = name THEN data ELSE dir[n]]

NoFiles == [n \in {} |-> 0]
NoSummary == [metadata |-> Metadata(1), totals |-> [ok |-> 0, error |-> 0],
              errors |-> <<>>, years |-> <<>>]

DatasetIds(s) == IF s = "imf" THEN {"", "IFS/A.US.NGDP"} ELSE {"SERIES"}

Catalogs ==
    UNION {[type : {s}, datasets : [1..n -> DatasetIds(s)]]
           : s \in SourceTypes, n \in 1..MaxDatasets}


\* Retrying without reraise: the last exception wrapped in a RetryError
Reraise_wrapped(outcome) ==
    [cls |-> "RetryError", status_code |-> None,
     text |-> <<"RetryError">>, attempt |-> outcome.attempt]

\* the exception Retrying raises once stop_after_attempt holds: reraise=True
\* raises the exception of the last attempt itself
Reraise(outcome) == outcome

\* an attempt raising for the retried 5xx codes only and returning a 429
AttemptException_5xx_only(out, n) ==
    IF out.kind = "response"
    THEN IF out.status_code \in RETRYABLE_STATUS_CODES \ {429}
         THEN RetryableRequestError(out.status_code, n)
         ELSE NoException
    ELSE IF out.kind = "RequestException" THEN RequestException(n)
    ELSE OtherException(n)

\* the exception an attempt ends in, NoException when it returns the response
AttemptException(out, n) ==
    IF out.kind = "response"
    THEN IF out.status_code \in RETRYABLE_STATUS_CODES
         THEN RetryableRequestError(out.status_code, n)
         ELSE NoException
    ELSE IF out.kind = "RequestException" THEN RequestException(n)
    ELSE OtherException(n)

NoReport == [totals |-> [datasets |-> 0, ok_years |-> 0, error_years |-> 0],
             datasets |-> <<>>]
NoArgs == [source_type |-> "", status_code |-> None, payload |-> JNull,
           exception |-> NoException]
Pending == [pending |-> TRUE]

InitThrottle ==
    /\ _LAST_REQUEST_TS = [s \in SourceTypes |-> None]
    /\ throttle_source = ""
    /\ throttle_wait = 0
    /\ throttle_gap = None

\* no first call has left files yet
NoSnapshot == [years |-> NoFiles, summary |-> NoFiles]
\* a URL: everything but the query, and the query as the sequence of its
\* name=value fields; a value is the sequence of the tokens of its text
NoUrl == [base |-> "", query |-> <<>>]
NoPeriodArgs == [url |-> NoUrl, year |-> START_YEAR, then |-> START_YEAR]
PeriodIdle == period_args = NoPeriodArgs /\ period_result = NoUrl

\* the process before main() of run_all.py runs
InitProcess ==
    /\ total = 0
    /\ run_report = NoReport
    /\ crash = ""
    /\ year = START_YEAR
    /\ payload = JNull
    /\ request_meta = NoMeta
    /\ status_code = None
    /\ captured_error = NoException
    /\ summary = NoSummary
    /\ year_files = [i \in 1..Len(catalog.datasets) |-> NoFiles]
    /\ summary_files = NoFiles
    /\ report_file = <<>>
    /\ write_log = <<>>
    /\ attempt = 0
    /\ backoff = 0
    /\ backoff_sleeps = 0
    /\ http_attempts = 0
    /\ throttle_calls = 0
    /\ last_outcome = NoException
    /\ last_code = None
    /\ codes_agree = TRUE
    /\ fault_years = 0
    /\ fault_now = FALSE
    /\ run_no = 1
    /\ upstream_log = <<>>
    /\ first_files = NoSnapshot

Init ==
    /\ InitThrottle
    /\ catalog \in Catalogs
    /\ throttle_callers = {catalog.type}
    /\ InitProcess
    /\ PeriodIdle
    /\ pc = "run_all"
    /\ classify_args = NoArgs
    /\ classify_result = Pending

\* run_all.py:26-33 and _common.py:399-434: the next dataset of the catalog is
\* handed to download_dataset, which looks up the handler and sets up the
\* summary; an unsupported source_type raises ValueError, which main() does
\* not catch
StartDataset ==
    /\ pc = "run_all"
    /\ total < Len(catalog.datasets)
    /\ total' = total + 1
    /\ IF catalog.type \notin SupportedSources
       THEN /\ pc' = "crashed"
            /\ crash' = "ValueError"
            /\ UNCHANGED <<summary, year>>
       ELSE /\ summary' = [metadata |-> Metadata(total + 1),
                           totals |-> [ok |-> 0, error |-> 0],
                           errors |-> <<>>, years |-> <<>>]
            /\ year' = START_YEAR
            /\ pc' = "year"
            /\ crash' = crash
    /\ UNCHANGED <<throttle_vars, catalog, run_report, payload, request_meta,
                   status_code, captured_error, file_vars, retry_vars,
                   fault_vars, classify_vars,
                   rerun_vars, period_vars>>

\* the state of one call of _request_with_retries before its first attempt,
\* and again once the iteration that made the call is over
RetryIdle(n) ==
    /\ attempt' = n
    /\ backoff' = 0
    /\ backoff_sleeps' = 0
    /\ http_attempts' = 0
    /\ throttle_calls' = 0
    /\ last_outcome' = NoException
    /\ last_code' = None
    /\ codes_agree' = TRUE

\* _common.py:436-443: one iteration starts; the handler of the source builds
\* its request and enters _request_with_retries, _imf_request returns at once
CallHandler ==
    /\ pc = "year"
    /\ captured_error' = NoException
    /\ RetryIdle(IF catalog.type = "imf" THEN 0 ELSE 1)
    /\ fault_now' = FALSE
    /\ IF catalog.type = "imf"
       THEN LET r == _imf_request(catalog.datasets[total], year) IN
            /\ payload' = r.payload
            /\ request_meta' = r.request_meta
            /\ status_code' = r.status_code
            /\ pc' = "classify"
       ELSE /\ payload' = JNull
            /\ request_meta' = NoMeta
            /\ status_code' = None
            /\ pc' = "throttle"
    /\ UNCHANGED <<throttle_vars, run_vars, crash, year, summary, file_vars,
                   fault_years, classify_vars,
                   rerun_vars, period_vars>>

\* _common.py:114: the attempt starts with _throttle
Throttle ==
    /\ pc = "throttle"
    /\ _throttle(catalog.type)
    /\ throttle_calls' = throttle_calls + 1
    /\ pc' = "request"
    /\ UNCHANGED <<run_vars, crash, loop_vars, file_vars, attempt, backoff,
                   backoff_sleeps, http_attempts, last_outcome, last_code,
                   codes_agree, fault_vars, classify_vars,
                   rerun_vars, period_vars>>

\* an attempt keeping the request and the body of a response it raises for
Exchange_recorded(out, took) ==
    LET exc == AttemptException(out, attempt)
        code == IF out.kind = "response" THEN out.status_code ELSE None
    IN
    /\ fault_now' = (fault_now \/ out # Nominal(catalog.type))
    /\ fault_years' = IF ~fault_now /\ out # Nominal(catalog.type)
                      THEN fault_years + 1 ELSE fault_years
    /\ _LAST_REQUEST_TS' = Elapse(_LAST_REQUEST_TS, took)
    /\ http_attempts' = http_attempts + 1
    /\ last_code' = code
    /\ codes_agree' = (codes_agree /\ code # None
                       /\ (http_attempts = 0 \/ code = last_code))
    /\ last_outcome' = exc
    /\ IF exc = NoException
       THEN /\ payload' = _ensure_json(out)
            /\ request_meta' = RequestMeta(catalog.type, catalog.datasets[total],
                                           year, out.status_code)
            /\ status_code' = out.status_code
            /\ pc' = "classify"
       ELSE /\ pc' = "retrying"
            /\ payload' = IF out.kind = "response" THEN _ensure_json(out) ELSE payload
            /\ request_meta' = IF out.kind = "response"
                               THEN RequestMeta(catalog.type, catalog.datasets[total],
                                                year, out.status_code)
                               ELSE request_meta
            /\ UNCHANGED status_code
    /\ ThrottleReturned
    /\ UNCHANGED <<run_vars, crash, year, captured_error, summary, file_vars,
                   attempt, backoff, backoff_sleeps, throttle_calls, classify_vars,
                   period_vars>>

\* _common.py:115-121 and the return statements of the handlers: one
\* session.request; a response outside RETRYABLE_STATUS_CODES is returned,
\* decoded and handed back with its request metadata, anything else leaves
\* the attempt as an exception
Exchange(out, took) ==
    LET exc == AttemptException(out, attempt)
        code == IF out.kind = "response" THEN out.status_code ELSE None
    IN
    /\ fault_now' = (fault_now \/ out # Nominal(catalog.type))
    /\ fault_years' = IF ~fault_now /\ out # Nominal(catalog.type)
                      THEN fault_years + 1 ELSE fault_years
    /\ _LAST_REQUEST_TS' = Elapse(_LAST_REQUEST_TS, took)
    /\ http_attempts' = http_attempts + 1
    /\ last_code' = code
    /\ codes_agree' = (codes_agree /\ code # None
                       /\ (http_attempts = 0 \/ code = last_code))
    /\ last_outcome' = exc
    /\ IF exc = NoException
       THEN /\ payload' = _ensure_json(out)
            /\ request_meta' = RequestMeta(catalog.type, catalog.datasets[total],
                                           year, out.status_code)
            /\ status_code' = out.status_code
            /\ pc' = "classify"
       ELSE /\ pc' = "retrying"
            /\ UNCHANGED <<payload, request_meta, status_code>>
    /\ ThrottleReturned
    /\ UNCHANGED <<run_vars, crash, year, captured_error, summary, file_vars,
                   attempt, backoff, backoff_sleeps, throttle_calls, classify_vars,
                   period_vars>>

\* the upstream answers the attempt, after a latency of its choosing
Request ==
    /\ pc = "request"
    /\ \E out \in (IF fault_now \/ (fault_years < MaxFaultYears /\ year \in FaultYears)
                   THEN Upstream(catalog.type) ELSE {Nominal(catalog.type)}),
          took \in 0..MaxLatency :
         Exchange(out, took)
    /\ UNCHANGED rerun_vars

\* _common.py:107-112: Retrying after an attempt that raised.  An exception
\* outside the retried classes leaves the loop at once; after MAX_ATTEMPTS
\* the last exception is raised; otherwise the backoff is drawn.  Either
\* exception reaches `except Exception` of download_dataset (_common.py:444)
RetryDecision ==
    /\ pc = "retrying"
    /\ IF last_outcome.cls \notin RetriedClasses
       THEN /\ captured_error' = last_outcome
            /\ pc' = "classify"
            /\ UNCHANGED backoff
       ELSE IF attempt >= MAX_ATTEMPTS
       THEN /\ captured_error' = Reraise(last_outcome)
            /\ pc' = "classify"
            /\ UNCHANGED backoff
       ELSE /\ \E jitter \in 0..WAIT_JITTER : backoff' = BackoffWait(attempt, jitter)
            /\ pc' = "backoff"
            /\ UNCHANGED captured_error
    /\ UNCHANGED <<throttle_vars, run_vars, crash, year, payload, request_meta,
                   status_code, summary, file_vars, attempt, backoff_sleeps,
                   http_attempts, throttle_calls, last_outcome, last_code,
                   codes_agree, fault_vars, classify_vars,
                   rerun_vars, period_vars>>

\* a retry that goes straight to the request after the backoff sleep
Backoff_unthrottled ==
    /\ pc = "backoff"
    /\ \E took \in SleepTimes(backoff) :
         _LAST_REQUEST_TS' = Elapse(_LAST_REQUEST_TS, took)
    /\ backoff' = 0
    /\ backoff_sleeps' = backoff_sleeps + 1
    /\ attempt' = attempt + 1
    /\ pc' = "request"
    /\ UNCHANGED <<throttle_source, throttle_wait, throttle_gap, throttle_callers,
                   run_vars, crash, loop_vars, file_vars, http_attempts,
                   throttle_calls, last_outcome, last_code, codes_agree,
                   fault_vars, classify_vars,
                   rerun_vars, period_vars>>

\* Retrying sleeps for the drawn backoff and starts the next attempt
Backoff ==
    /\ pc = "backoff"
    /\ \E took \in SleepTimes(backoff) :
         _LAST_REQUEST_TS' = Elapse(_LAST_REQUEST_TS, took)
    /\ backoff' = 0
    /\ backoff_sleeps' = backoff_sleeps + 1
    /\ attempt' = attempt + 1
    /\ pc' = "throttle"
    /\ UNCHANGED <<throttle_source, throttle_wait, throttle_gap, throttle_callers,
                   run_vars, crash, loop_vars, file_vars, http_attempts,
                   throttle_calls, last_outcome, last_code, codes_agree,
                   fault_vars, classify_vars,
                   rerun_vars, period_vars>>


\* the per-year record download_dataset writes (_common.py:452-461)
Artifact(metadata, y, meta, result, response) ==
    [metadata |-> metadata, year |-> y, request |-> meta,
     status |-> result.status, error_type |-> result.error_type,
     recommended_action |-> result.recommended_action,
     message |-> result.message, response |-> response]

\* an accumulation listing the years that succeeded only
Accumulate_ok_years(sm, y, meta, result) ==
    [metadata |-> sm.metadata,
     totals |-> IF result.status = "ok"
                THEN [ok |-> sm.totals.ok + 1, error |-> sm.totals.error]
                ELSE [ok |-> sm.totals.ok, error |-> sm.totals.error + 1],
     errors |-> IF result.status = "ok" THEN sm.errors
                ELSE Append(sm.errors,
                            [year |-> y, error_type |-> result.error_type,
                             recommended_action |-> result.recommended_action,
                             message |-> result.message, request |-> meta]),
     years |-> IF result.status = "ok"
               THEN Append(sm.years,
                           [year |-> y, status |-> result.status,
                            error_type |-> result.error_type,
                            recommended_action |-> result.recommended_action])
               ELSE sm.years]

\* the summary after the result of year y is accumulated (_common.py:464-486)
Accumulate(sm, y, meta, result) ==
    [metadata |-> sm.metadata,
     totals |-> IF result.status = "ok"
                THEN [ok |-> sm.totals.ok + 1, error |-> sm.totals.error]
                ELSE [ok |-> sm.totals.ok, error |-> sm.totals.error + 1],
     errors |-> IF result.status = "ok" THEN sm.errors
                ELSE Append(sm.errors,
                            [year |-> y, error_type |-> result.error_type,
                             recommended_action |-> result.recommended_action,
                             message |-> result.message, request |-> meta]),
     years |-> Append(sm.years,
                      [year |-> y, status |-> result.status,
                       error_type |-> result.error_type,
                       recommended_action |-> result.recommended_action])]

\* download_dataset without the try block of lines 442-445: the exception of
\* the adapter leaves download_dataset
ClassifyAndWrite_uncaught ==
    /\ pc = "classify"
    /\ LET result == _classify_result(catalog.type, status_code, payload, captured_error) IN
       IF HasRaised(result) \/ captured_error # NoException
       THEN /\ pc' = "crashed"
            /\ crash' = IF captured_error # NoException
                        THEN captured_error.cls ELSE result.raised
            /\ UNCHANGED <<year, summary, year_files, write_log, retry_vars>>
       ELSE /\ year_files' = [year_files EXCEPT ![total] =
                   WriteFile(@, year, Artifact(summary.metadata, year, request_meta,
                                               result, payload))]
            /\ write_log' = Append(write_log,
                                   [dataset |-> total, kind |-> "year", year |-> year])
            /\ summary' = Accumulate(summary, year, request_meta, result)
            /\ IF year < END_YEAR
               THEN year' = year + 1 /\ pc' = "year"
               ELSE year' = year /\ pc' = "summary"
            /\ crash' = crash
            /\ RetryIdle(0)
    /\ UNCHANGED <<throttle_vars, run_vars, payload, request_meta, status_code,
                   captured_error, summary_files, report_file,
                   fault_vars, classify_vars,
                   rerun_vars, period_vars>>

\* _common.py:447-486: the outcome of the year is classified outside the try
\* block, the artifact is written, the summary accumulated and the loop moves
\* on; an exception of _classify_result leaves download_dataset and main()
ClassifyAndWrite ==
    /\ pc = "classify"
    /\ LET result == _classify_result(catalog.type, status_code, payload, captured_error) IN
       IF HasRaised(result)
       THEN /\ pc' = "crashed"
            /\ crash' = result.raised
            /\ UNCHANGED <<year, summary, year_files, write_log, retry_vars>>
       ELSE /\ year_files' = [year_files EXCEPT ![total] =
                   WriteFile(@, year, Artifact(summary.metadata, year, request_meta,
                                               result, payload))]
            /\ write_log' = Append(write_log,
                                   [dataset |-> total, kind |-> "year", year |-> year])
            /\ summary' = Accumulate(summary, year, request_meta, result)
            /\ IF year < END_YEAR
               THEN year' = year + 1 /\ pc' = "year"
               ELSE year' = year /\ pc' = "summary"
            /\ crash' = crash
            /\ RetryIdle(0)
    /\ UNCHANGED <<throttle_vars, run_vars, payload, request_meta, status_code,
                   captured_error, summary_files, report_file,
                   fault_vars, classify_vars,
                   rerun_vars, period_vars>>

\* _common.py:488-492 and run_all.py:34-51: the summary is written and
\* returned, and main() adds it to the run report
WriteSummary ==
    /\ pc = "summary"
    /\ summary_files' = WriteFile(summary_files, total, summary)
    /\ write_log' = Append(write_log,
                           [dataset |-> total, kind |-> "summary", year |-> None])
    /\ run_report' =
         [totals |-> [datasets |-> run_report.totals.datasets + 1,
                      ok_years |-> run_report.totals.ok_years + summary.totals.ok,
                      error_years |-> run_report.totals.error_years + summary.totals.error],
          datasets |-> Append(run_report.datasets,
                              [dataset |-> total, source_type |-> catalog.type,
                               totals |-> summary.totals, errors |-> summary.errors])]
    /\ pc' = "run_all"
    /\ UNCHANGED <<throttle_vars, catalog, total, crash, loop_vars, year_files,
                   report_file, retry_vars, fault_vars, classify_vars,
                   rerun_vars, period_vars>>

\* run_all.py:53-58: after the last dataset the run report is written
FinishRun ==
    /\ pc = "run_all"
    /\ total = Len(catalog.datasets)
    /\ report_file' = <<run_report>>
    /\ pc' = "done"
    /\ UNCHANGED <<throttle_vars, run_vars, crash, loop_vars, year_files,
                   summary_files, write_log, retry_vars, fault_vars, classify_vars,
                   rerun_vars, period_vars>>

Next ==
    \/ StartDataset
    \/ CallHandler
    \/ Throttle
    \/ Request
    \/ RetryDecision
    \/ Backoff
    \/ ClassifyAndWrite
    \/ WriteSummary
    \/ FinishRun

Spec == Init /\ [][Next]_vars


(***************************************************************************)
(* download_dataset called twice with the same arguments, the upstream     *)
(* answering the second call as it answered the first.                     *)
(***************************************************************************)
\* what the upstream answers in the first call
ReplayUpstream(source_type) ==
    {Nominal(source_type), Response(200, EmptyBody(source_type)),
     Response(200, RawBody), Response(404, ErrorBody), Response(503, ErrorBody),
     Failure("Exception")}

RerunCatalogs == {c \in Catalogs : Len(c.datasets) = 1 /\ c.type \in SupportedSources}

InitRerun ==
    /\ InitThrottle
    /\ catalog \in RerunCatalogs
    /\ throttle_callers = {catalog.type}
    /\ InitProcess
    /\ PeriodIdle
    /\ pc = "run_all"
    /\ classify_args = NoArgs
    /\ classify_result = Pending

\* an attempt of the first call: the answer of a year of FaultYears is kept
RequestFirst ==
    /\ pc = "request"
    /\ run_no = 1
    /\ \E out \in (IF year \in FaultYears THEN ReplayUpstream(catalog.type)
                   ELSE {Nominal(catalog.type)}),
          took \in 0..MaxLatency :
         /\ Exchange(out, took)
         /\ upstream_log' = IF year \in FaultYears THEN Append(upstream_log, out)
                            ELSE upstream_log
    /\ UNCHANGED <<run_no, first_files>>

\* an attempt of the second call is answered as the same attempt of the same
\* year was in the first call, after a latency of its own
RequestAgain ==
    /\ pc = "request"
    /\ run_no = 2
    /\ \E took \in 0..MaxLatency :
         Exchange(IF year \in FaultYears THEN upstream_log[attempt]
                  ELSE Nominal(catalog.type), took)
    /\ UNCHANGED rerun_vars

\* _common.py:399-434: the first call has returned and download_dataset is
\* called again with the same arguments; the throttle map is the one the
\* first call left
RunAgain ==
    /\ pc = "run_all"
    /\ total = 1
    /\ run_no = 1
    /\ run_no' = 2
    /\ first_files' = [years |-> year_files[1], summary |-> summary_files]
    /\ summary' = [metadata |-> Metadata(1), totals |-> [ok |-> 0, error |-> 0],
                   errors |-> <<>>, years |-> <<>>]
    /\ year' = START_YEAR
    /\ pc' = "year"
    /\ UNCHANGED <<throttle_vars, run_vars, crash, payload, request_meta,
                   status_code, captured_error, file_vars, retry_vars, fault_vars,
                   classify_vars, upstream_log, period_vars>>

NextRerun ==
    \/ StartDataset
    \/ CallHandler
    \/ Throttle
    \/ RequestFirst
    \/ RequestAgain
    \/ RetryDecision
    \/ Backoff
    \/ ClassifyAndWrite
    \/ WriteSummary
    \/ RunAgain

SpecRerun == InitRerun /\ [][NextRerun]_vars

(***************************************************************************)
(* _classify_result called directly, on arguments of every shape.          *)
(***************************************************************************)
StatusCodeSamples ==
    {None, 100, 199, 200, 201, 204, 299, 300, 304, 400, 401, 402, 403, 404,
     418, 429, 499, 500, 501, 502, 503, 504, 599, 600}

BlsResults(results) == JDict([Results |-> results])

PayloadSamples ==
    UNION {{_ensure_json(Response(200, b)) : b \in Bodies(s)} : s \in SourceTypes}
    \cup {JNull, JStr("text"), JList(<<>>), JList(<<Row, Row, Row>>), JDict(NoItems),
          JDict([observations |-> JNull]), JDict([prices |-> JStr("")]),
          BlsResults(JNull), BlsResults(JDict(NoItems)),
          BlsBody(JNull), BlsBody(JList(<<>>)), BlsBody(JStr("none")),
          BlsBody(JNum(0)), BlsBody(JNum(7)), BlsBody(JDict([a |-> Point])),
          BlsBody(JList(<<JDict(NoItems)>>)),
          BlsBody(JList(<<JDict([data |-> JNull])>>)),
          BlsBody(JList(<<JList(<<Point>>)>>))}

ExceptionSamples ==
    {NoException, RequestException(6), OtherException(1)}
    \cup {RetryableRequestError(c, 6) : c \in RETRYABLE_STATUS_CODES \cup {None, 404, 501}}

ClassifyInputs ==
    [source_type : SourceTypes, status_code : StatusCodeSamples,
     payload : PayloadSamples, exception : ExceptionSamples]

IdleCatalog == [type |-> UnknownSource, datasets |-> <<"SERIES">>]

InitClassify ==
    /\ InitThrottle
    /\ catalog = IdleCatalog
    /\ throttle_callers = {}
    /\ InitProcess
    /\ PeriodIdle
    /\ pc = "classify_call"
    /\ classify_args \in ClassifyInputs
    /\ classify_result = Pending

ClassifyCall ==
    /\ pc = "classify_call"
    /\ classify_result' = _classify_result(classify_args.source_type,
                                           classify_args.status_code,
                                           classify_args.payload,
                                           classify_args.exception)
    /\ pc' = "classify_done"
    /\ UNCHANGED <<throttle_vars, run_vars, crash, loop_vars, file_vars, retry_vars,
                   fault_vars, classify_args,
                   rerun_vars, period_vars>>

NextClassify == ClassifyCall

SpecClassify == InitClassify /\ [][NextClassify]_vars

(***************************************************************************)
(* _throttle called in any order for two source types, with any amount of  *)
(* time between the calls.                                                 *)
(***************************************************************************)
InitThrottleCalls ==
    /\ InitThrottle
    /\ catalog = IdleCatalog
    /\ throttle_callers \in {c \in SUBSET SourceTypes : Cardinality(c) = 2}
    /\ InitProcess
    /\ PeriodIdle
    /\ pc = "throttle_calls"
    /\ classify_args = NoArgs
    /\ classify_result = Pending

ThrottleCall ==
    /\ pc = "throttle_calls"
    /\ \E s \in throttle_callers : _throttle(s)
    /\ UNCHANGED <<run_vars, pc, crash, loop_vars, file_vars, retry_vars,
                   fault_vars, classify_vars,
                   rerun_vars, period_vars>>

\* one tick passes between two calls
TimePasses ==
    /\ pc = "throttle_calls"
    /\ _LAST_REQUEST_TS' = Elapse(_LAST_REQUEST_TS, 1)
    /\ ThrottleReturned
    /\ UNCHANGED <<run_vars, pc, crash, loop_vars, file_vars, retry_vars,
                   fault_vars, classify_vars,
                   rerun_vars, period_vars>>

NextThrottle == ThrottleCall \/ TimePasses

SpecThrottle == InitThrottleCalls /\ [][NextThrottle]_vars


(***************************************************************************)
(* _set_period_params called directly, and again on its own result.        *)
(***************************************************************************)
\* startPeriod values: quarterly, monthly, annual, the YYYY placeholder,
\* blank, and text holding both markers
StartTemplates ==
    {<<"2015", "-Q", "1">>, <<"2015", "-M", "06">>, <<"2015">>, <<"YYYY">>, <<>>,
     <<"YYYY", "-M", "-Q">>}

QueryFields ==
    {<<"startPeriod", t>> : t \in StartTemplates}
    \cup {<<"endPeriod", <<"2015", "-Q", "4">>>>, <<"format", <<"jsondata">>>>,
          <<"format", <<"csv">>>>, <<"startperiod", <<"2015", "-Q", "1">>>>}

\* queries with at most one startPeriod field
Queries ==
    {q \in UNION {[1..n -> QueryFields] : n \in 0..MaxParams} :
        \A i, j \in 1..Len(q) : (q[i][1] = "startPeriod" /\ q[j][1] = "startPeriod") => i = j}

PeriodInputs ==
    [url : [base : {"https://sdmx.oecd.org/public/rest/data/QNA"}, query : Queries],
     year : {1995, 2021}, then : {2021, 2026}]

InitPeriod ==
    /\ InitThrottle
    /\ catalog = IdleCatalog
    /\ throttle_callers = {}
    /\ InitProcess
    /\ pc = "period_call"
    /\ classify_args = NoArgs
    /\ classify_result = Pending
    /\ period_args \in PeriodInputs
    /\ period_result = NoUrl

\* _oecd_request rewrites the dataset URL for a year (_common.py:221)
PeriodCall ==
    /\ pc = "period_call"
    /\ period_result' = _set_period_params(period_args.url, period_args.year)
    /\ pc' = "period_done"
    /\ UNCHANGED <<throttle_vars, run_vars, crash, loop_vars, file_vars, retry_vars,
                   fault_vars, classify_vars, rerun_vars, period_args>>

\* the rewritten URL is rewritten for another year
PeriodCallAgain ==
    /\ pc = "period_done"
    /\ period_result' = _set_period_params(period_result, period_args.then)
    /\ pc' = "period_again"
    /\ UNCHANGED <<throttle_vars, run_vars, crash, loop_vars, file_vars, retry_vars,
                   fault_vars, classify_vars, rerun_vars, period_args>>

NextPeriod == PeriodCall \/ PeriodCallAgain

SpecPeriod == InitPeriod /\ [][NextPeriod]_vars

(***************************************************************************)
(* Claims.                                                                 *)
(***************************************************************************)
\* the status codes the claims name as retried
RetriedCodes == {429, 500, 502, 503, 504}

\* C1: when every HTTP attempt of one call returns the same status code out
\* of {429, 500, 502, 503, 504}, the call makes exactly 6 HTTP attempts: never
\* more, and it ends only after the 6th, with the caller observing a
\* RetryableRequestError that carries that status code.
C1_RetryBudget ==
    (http_attempts > 0 /\ codes_agree /\ last_code \in RetriedCodes) =>
        /\ http_attempts <= 6
        /\ pc \in {"retrying", "backoff", "throttle", "request", "classify"}
        /\ pc = "classify" =>
             /\ http_attempts = 6
             /\ captured_error.cls = "RetryableRequestError"
             /\ captured_error.status_code = last_code

C1_Witness ==
    /\ pc = "classify"
    /\ codes_agree
    /\ last_code = 503
    /\ http_attempts = 6
    /\ captured_error.cls = "RetryableRequestError"
    /\ captured_error.status_code = 503

\* C2: the first attempt whose response has a status code outside
\* {429, 500, 502, 503, 504} ends the loop: the call has returned that
\* response to the handler and no further attempt is made; one call makes
\* between 1 and 6 HTTP attempts.
C2_NoRetryOfCompletedExchange ==
    /\ http_attempts <= 6
    /\ (pc = "classify" /\ catalog.type # "imf") => http_attempts >= 1
    /\ (http_attempts > 0 /\ last_code # None /\ last_code \notin RetriedCodes) =>
         /\ pc \in {"classify", "crashed"}
         /\ captured_error = NoException
         /\ status_code = last_code
         /\ request_meta.status_code = last_code
         /\ http_attempts = attempt

C2_Witness ==
    /\ pc = "classify"
    /\ http_attempts = 3
    /\ status_code = 404
    /\ captured_error = NoException

\* the error_type the claims derive from an exception
ErrorTypeOf(exception) ==
    IF exception.cls = "RetryableRequestError" /\ exception.status_code = 429
    THEN "rate_limited"
    ELSE IF exception.cls = "RetryableRequestError"
            /\ exception.status_code \in {500, 502, 503, 504}
    THEN "upstream_server_error"
    ELSE "transient_retries_exhausted"

\* C3: when all 6 attempts of a call failed, whatever the mix of transport
\* failures and retried status codes, the exception the caller catches is the
\* one of the 6th attempt itself, and download_dataset writes the year as an
\* error whose error_type is derived from that exception.
C3_LastErrorReraised ==
    [][(pc = "classify" /\ http_attempts = 6
          /\ last_outcome.cls \in {"RequestException", "RetryableRequestError"}) =>
         /\ captured_error = last_outcome
         /\ captured_error.attempt = 6
         /\ pc' \in {"year", "summary"}
         /\ year \in DOMAIN year_files'[total]
         /\ year_files'[total][year].status = "error"
         /\ year_files'[total][year].error_type = ErrorTypeOf(last_outcome)
         /\ summary'.errors[Len(summary'.errors)].year = year
         /\ summary'.errors[Len(summary'.errors)].error_type = ErrorTypeOf(last_outcome)
      ]_vars

C3_Witness ==
    /\ pc = "classify"
    /\ http_attempts = 6
    /\ ~codes_agree
    /\ captured_error = RetryableRequestError(429, 6)

\* min_delay(source_type) as the claims list it, in ticks of 0.2 s
MinDelayClaimed(s) ==
    CASE s = "fred" -> 3
      [] s = "bls" -> 4
      [] s = "coingecko" -> 8
      [] s = "oecd" -> 6
      [] s = "ecb" -> 4
      [] s = "census" -> 4
      [] s = "imf" -> 5
      [] OTHER -> 3

\* C4: two consecutive completions of _throttle for the same source_type are
\* at least min_delay(source_type) apart.
C4_MinDelayBetweenCalls ==
    (throttle_source # "" /\ throttle_gap # None) =>
        throttle_gap >= MinDelayClaimed(throttle_source)

C4_Witness ==
    /\ throttle_source = "imf"
    /\ throttle_wait = 2
    /\ throttle_gap = 5
    /\ \E t \in throttle_callers : t # "imf" /\ _LAST_REQUEST_TS[t] = 3

\* C5: _throttle(s) touches the timestamp of s only: the timestamps of the
\* other source types are neither set nor cleared (they only move away from
\* now by the time the call took), the wait is decided by the timestamp of
\* s alone, the first call for s does not wait, and no wait is longer than
\* min_delay(s).
C5_ThrottlePerSource ==
    [][\A s \in SourceTypes : throttle_source' = s =>
         /\ \E d \in 0..(AgeCap + MaxOversleep) :
              \A t \in SourceTypes \ {s} :
                 _LAST_REQUEST_TS'[t] =
                    IF _LAST_REQUEST_TS[t] = None THEN None
                    ELSE Min(_LAST_REQUEST_TS[t] + d, AgeCap)
         /\ throttle_wait' = IF _LAST_REQUEST_TS[s] = None THEN 0
                             ELSE Max(0, MinDelayClaimed(s) - _LAST_REQUEST_TS[s])
         /\ _LAST_REQUEST_TS[s] = None => throttle_wait' = 0
         /\ throttle_wait' <= MinDelayClaimed(s)
      ]_vars

C5_Witness ==
    /\ throttle_source # ""
    /\ throttle_gap = None
    /\ throttle_wait = 0
    /\ \E t \in throttle_callers :
         /\ t # throttle_source
         /\ _LAST_REQUEST_TS[t] # None
         /\ _LAST_REQUEST_TS[t] < MinDelayClaimed(throttle_source)

\* C6: every HTTP attempt is immediately preceded by one _throttle call for
\* the source of the call, made after the backoff sleep of the attempt, and
\* a call makes as many _throttle calls as HTTP attempts.
C6_ThrottleBeforeEveryAttempt ==
    /\ pc = "request" =>
         /\ throttle_source = catalog.type
         /\ throttle_calls = http_attempts + 1
         /\ backoff = 0
         /\ backoff_sleeps = attempt - 1
    /\ pc # "request" => throttle_calls = http_attempts

C6_Witness ==
    /\ pc = "request"
    /\ attempt = 3
    /\ throttle_calls = 3
    /\ http_attempts = 2
    /\ backoff_sleeps = 2


\* the entries of write_log of dataset i, in the order they were written
DatasetLog(i) == SelectSeq(write_log, LAMBDA e : e.dataset = i)

\* C7: an exception of the adapter is captured: the year is written as an
\* error and the loop goes on to the next year (to the summary after 2026);
\* the years of a dataset are written once each, in ascending order from
\* 1995, the summary comes after the artifact of 2026, and no exception of
\* the adapter ends download_dataset.
C7_AdapterErrorCaptured ==
    /\ [](/\ \A i \in 1..Len(catalog.datasets) :
               LET log == DatasetLog(i) IN
               /\ Len(log) <= 33
               /\ \A k \in 1..Len(log) :
                    IF k <= 32
                    THEN log[k].kind = "year" /\ log[k].year = 1995 + (k - 1)
                    ELSE log[k].kind = "summary"
               /\ DOMAIN year_files[i] = {1995 + (k - 1) : k \in 1..Min(Len(log), 32)}
               /\ i \in DOMAIN summary_files <=> Len(log) = 33
          /\ pc = "crashed" => captured_error = NoException)
    /\ [][(pc = "classify" /\ captured_error # NoException) =>
            /\ crash' = ""
            /\ year \in DOMAIN year_files'[total]
            /\ year_files'[total][year].status = "error"
            /\ IF year < 2026 THEN pc' = "year" /\ year' = year + 1
               ELSE pc' = "summary"
         ]_vars

C7_Witness ==
    /\ 1 \in DOMAIN summary_files
    /\ Len(summary_files[1].years) = 32
    /\ summary_files[1].years[1].error_type = "transient_retries_exhausted"
    /\ summary_files[1].years[2].status = "ok"
    /\ DOMAIN summary_files[1].errors[1].request = {}

\* C8: for a supported source_type no outcome of a year makes
\* download_dataset raise.
C8_NoOutcomeEscapes ==
    catalog.type \in SupportedSources => pc # "crashed"

\* C9: with an exception the classification is decided by the exception
\* alone: rate_limited for a RetryableRequestError with code 429,
\* upstream_server_error for one with code 500, 502, 503 or 504,
\* transient_retries_exhausted with the text of the exception otherwise;
\* always status "error" and action retry_later.
C9_ExceptionWins ==
    (pc = "classify_done" /\ classify_args.exception # NoException) =>
        /\ ~HasRaised(classify_result)
        /\ classify_result.status = "error"
        /\ classify_result.recommended_action = "retry_later"
        /\ classify_result.error_type = ErrorTypeOf(classify_args.exception)
        /\ ErrorTypeOf(classify_args.exception) = "transient_retries_exhausted"
              => classify_result.message = classify_args.exception.text

C9_Witness ==
    /\ pc = "classify_done"
    /\ classify_args.exception = RetryableRequestError(429, 6)
    /\ classify_args.status_code = 200
    /\ classify_args.source_type = "fred"
    /\ classify_args.payload = DataBody("fred")
    /\ classify_result.error_type = "rate_limited"

\* a payload that carries data in the shape of its source
HasData(s, p) ==
    CASE s = "fred" ->
            /\ p.type = "dict"
            /\ "observations" \in DOMAIN p.items
            /\ p.items.observations.type = "list"
            /\ Len(p.items.observations.elems) > 0
      [] s = "bls" ->
            /\ p.type = "dict"
            /\ "Results" \in DOMAIN p.items
            /\ p.items.Results.type = "dict"
            /\ "series" \in DOMAIN p.items.Results.items
            /\ p.items.Results.items.series.type = "list"
            /\ Len(p.items.Results.items.series.elems) > 0
            /\ LET first == p.items.Results.items.series.elems[1] IN
               /\ first.type = "dict"
               /\ "data" \in DOMAIN first.items
               /\ first.items.data.type = "list"
               /\ Len(first.items.data.elems) > 0
      [] s = "coingecko" ->
            /\ p.type = "dict"
            /\ "prices" \in DOMAIN p.items
            /\ p.items.prices.type = "list"
            /\ Len(p.items.prices.elems) > 0
      [] s = "census" -> p.type = "list" /\ Len(p.elems) >= 2
      [] OTHER -> FALSE

\* C10: without an exception and with a 2xx status the result is ok, "",
\* none, "Success" for a supported source whose payload carries data, and for
\* oecd, ecb and imf whatever the payload.
C10_OkOnData ==
    (/\ pc = "classify_done"
     /\ classify_args.exception = NoException
     /\ 200 <= classify_args.status_code
     /\ classify_args.status_code < 300
     /\ \/ classify_args.source_type \in {"oecd", "ecb", "imf"}
        \/ HasData(classify_args.source_type, classify_args.payload))
    => classify_result = Classification("ok", "", "none", <<"Success">>)

C10_Witness ==
    /\ pc = "classify_done"
    /\ classify_args.exception = NoException
    /\ classify_args.status_code = 204
    /\ classify_args.source_type = "census"
    /\ classify_args.payload = JList(<<Row, Row>>)
    /\ classify_result.status = "ok"


\* the three fields of a classification the taxonomy speaks of
Triple(result) == <<result.status, result.error_type, result.recommended_action>>

\* the value at Results.series of a bls payload, JNull when there is none
SeriesOf(p) ==
    IF "Results" \in DOMAIN p.items /\ p.items.Results.type = "dict"
       /\ "series" \in DOMAIN p.items.Results.items
    THEN p.items.Results.items.series ELSE JNull

\* the empty-result heuristic in the words of the specification
EmptyResult(s, p) ==
    CASE s = "fred" ->
            /\ p.type = "dict"
            /\ "observations" \in DOMAIN p.items
            /\ p.items.observations = JList(<<>>)
      [] s = "bls" ->
            /\ p.type = "dict"
            /\ \/ ~Truthy(SeriesOf(p))
               \/ /\ SeriesOf(p).type = "list"
                  /\ SeriesOf(p).elems[1].type = "dict"
                  /\ DictGet(SeriesOf(p).elems[1], "data", JList(<<>>)) = JList(<<>>)
      [] s = "coingecko" ->
            /\ p.type = "dict"
            /\ "prices" \in DOMAIN p.items
            /\ p.items.prices = JList(<<>>)
      [] s = "census" -> p.type = "list" /\ Len(p.elems) <= 1
      [] OTHER -> FALSE

StatusTaxonomy(code) ==
    CASE code = 400 -> <<"error", "malformed_request", "fix_request">>
      [] code \in {401, 403} -> <<"error", "auth_or_access", "check_api_key_or_permissions">>
      [] code = 404 -> <<"error", "dataset_not_found", "fix_request">>
      [] code = 429 -> <<"error", "rate_limited", "retry_later">>
      [] code \in 500..599 -> <<"error", "upstream_server_error", "retry_later">>
      [] OTHER -> <<"error", "unexpected_status", "inspect_response">>

\* C12: without an exception and with a status code that is present and not
\* 2xx, the classification is the one the taxonomy gives for the status code,
\* and it is the same for every source_type and payload.
C12_StatusOnly ==
    (/\ pc = "classify_done"
     /\ classify_args.exception = NoException
     /\ classify_args.status_code # None
     /\ ~(200 <= classify_args.status_code /\ classify_args.status_code < 300))
    => /\ ~HasRaised(classify_result)
       /\ Triple(classify_result) = StatusTaxonomy(classify_args.status_code)
       /\ classify_result
            = _classify_result("fred", classify_args.status_code, JNull, NoException)

C12_Witness ==
    /\ pc = "classify_done"
    /\ classify_args.exception = NoException
    /\ classify_args.status_code = 501
    /\ classify_args.source_type = "bls"
    /\ classify_args.payload = BlsResults(JNull)
    /\ classify_result.error_type = "upstream_server_error"


\* C13: for source_type imf no HTTP attempt and no _throttle call is ever
\* made, whatever the dataset_id: the adapter hands back a null status code,
\* every year written is error, malformed_or_missing_config, fix_request,
\* and a written summary has the totals ok = 0, error = 32.
C13_ImfPlaceholder ==
    catalog.type = "imf" =>
        /\ pc \notin {"throttle", "request", "retrying", "backoff", "crashed"}
        /\ http_attempts = 0
        /\ throttle_calls = 0
        /\ \A s \in SourceTypes : _LAST_REQUEST_TS[s] = None
        /\ pc = "classify" => status_code = None /\ captured_error = NoException
        /\ \A i \in 1..Len(catalog.datasets) : \A y \in DOMAIN year_files[i] :
             Triple(year_files[i][y])
                = <<"error", "malformed_or_missing_config", "fix_request">>
        /\ \A i \in DOMAIN summary_files :
             /\ summary_files[i].totals = [ok |-> 0, error |-> 32]
             /\ DOMAIN year_files[i] = 1995..2026

C13_Witness ==
    /\ catalog.type = "imf"
    /\ catalog.datasets = <<"", "IFS/A.US.NGDP">>
    /\ DOMAIN summary_files = {1, 2}
    /\ summary_files[2].totals.error = 32


\* C14: while and after download_dataset runs a second time with the same
\* arguments and the same upstream answers, the files are those the first
\* run left, with the same content: each file is replaced by an identical
\* one, whatever the throttle map, the latencies and the backoff jitter of
\* the second run; once it has returned, the files are {year}.json for
\* 1995..2026 and _summary.json.
C14_RerunLeavesSameFiles ==
    run_no = 2 =>
        /\ year_files[1] = first_files.years
        /\ summary_files = first_files.summary
        /\ pc = "run_all" => /\ DOMAIN year_files[1] = 1995..2026
                             /\ DOMAIN summary_files = {1}

C14_Witness ==
    /\ run_no = 2
    /\ pc = "run_all"
    /\ catalog.type = "fred"
    /\ Len(upstream_log) = 3
    /\ upstream_log[3] = Response(200, EmptyBody("fred"))
    /\ summary_files[1].totals = [ok |-> 31, error |-> 1]
    /\ _LAST_REQUEST_TS["fred"] = 1


\* C15: download_dataset is left by an exception only for a source_type
\* outside the seven supported ones, and then at once: no HTTP attempt was
\* made, no throttle timestamp was set and no file was written.
C15_OnlyUnsupportedSourceEscapes ==
    pc = "crashed" =>
        /\ catalog.type \notin SupportedSources
        /\ crash = "ValueError"
        /\ http_attempts = 0
        /\ \A s \in SourceTypes : _LAST_REQUEST_TS[s] = None
        /\ \A i \in 1..Len(catalog.datasets) : year_files[i] = NoFiles
        /\ summary_files = NoFiles


\* the nine error types of the taxonomy
ErrorTypes ==
    {"rate_limited", "upstream_server_error", "transient_retries_exhausted",
     "malformed_or_missing_config", "malformed_request", "dataset_not_found",
     "no_data_in_range", "auth_or_access", "unexpected_status"}

\* the recommended action the taxonomy attaches to an error type
ActionOf(error_type) ==
    CASE error_type \in {"rate_limited", "upstream_server_error",
                         "transient_retries_exhausted"} -> "retry_later"
      [] error_type \in {"malformed_or_missing_config", "malformed_request",
                         "dataset_not_found"} -> "fix_request"
      [] error_type = "no_data_in_range" -> "accept_or_change_time_range"
      [] error_type = "auth_or_access" -> "check_api_key_or_permissions"
      [] error_type = "unexpected_status" -> "inspect_response"
      [] OTHER -> "none"

\* C16: every classification _classify_result returns is consistent with
\* the taxonomy: status is "ok" or "error"; it is "ok" exactly when
\* error_type is "" and exactly when recommended_action is "none"; otherwise
\* error_type is one of the nine types and recommended_action is the action
\* of that type.
C16_Taxonomy ==
    (pc = "classify_done" /\ ~HasRaised(classify_result)) =>
        /\ classify_result.status \in {"ok", "error"}
        /\ classify_result.status = "ok" <=> classify_result.error_type = ""
        /\ classify_result.status = "ok" <=> classify_result.recommended_action = "none"
        /\ classify_result.status = "error" =>
             /\ classify_result.error_type \in ErrorTypes
             /\ classify_result.recommended_action = ActionOf(classify_result.error_type)

C16_Witness ==
    /\ pc = "classify_done"
    /\ classify_args.exception = NoException
    /\ classify_args.status_code = 418
    /\ classify_args.source_type = "ecb"
    /\ Triple(classify_result) = <<"error", "unexpected_status", "inspect_response">>


\* the values of the fields called name, in the order of the query
ValuesOf(url, name) ==
    LET fields == SelectSeq(url.query, LAMBDA f : f[1] = name)
    IN  [i \in 1..Len(fields) |-> fields[i][2]]

\* the granularity of the startPeriod a URL carries
Granularity(url) ==
    LET start == ValuesOf(url, "startPeriod") IN
    IF start # <<>> /\ Contains(start[1], "-Q") THEN "quarter"
    ELSE IF start # <<>> /\ Contains(start[1], "-M") THEN "month"
    ELSE "year"

\* C17: _set_period_params(url, year) leaves one startPeriod and one
\* endPeriod, {year}-Q1 and {year}-Q4 when the startPeriod of url contains
\* "-Q", {year}-M01 and {year}-M12 when it contains "-M", the bare year when
\* it contains neither or is absent; every other query parameter keeps its
\* values; and rewriting the result for a second year gives the URL that
\* rewriting url for the second year gives.
C17_PeriodRewrite ==
    /\ pc = "period_done" =>
         /\ period_result.base = period_args.url.base
         /\ ValuesOf(period_result, "startPeriod") =
              <<CASE Granularity(period_args.url) = "quarter"
                       -> <<Str(period_args.year), "-Q", "1">>
                  [] Granularity(period_args.url) = "month"
                       -> <<Str(period_args.year), "-M", "01">>
                  [] OTHER -> <<Str(period_args.year)>> >>
         /\ ValuesOf(period_result, "endPeriod") =
              <<CASE Granularity(period_args.url) = "quarter"
                       -> <<Str(period_args.year), "-Q", "4">>
                  [] Granularity(period_args.url) = "month"
                       -> <<Str(period_args.year), "-M", "12">>
                  [] OTHER -> <<Str(period_args.year)>> >>
         /\ \A name \in {"format", "startperiod"} :
              ValuesOf(period_result, name) = ValuesOf(period_args.url, name)
         /\ \A i \in 1..Len(period_result.query) :
              period_result.query[i][1] \in
                 {"startPeriod", "endPeriod"} \cup {f[1] : f \in QueryFields}
    /\ pc = "period_again" =>
         period_result = _set_period_params(period_args.url, period_args.then)

C17_Witness ==
    /\ pc = "period_again"
    /\ period_args.url.query = <<(<<"format", <<"csv">>>>),
                                 (<<"startPeriod", <<"2015", "-Q", "1">>>>),
                                 (<<"format", <<"jsondata">>>>)>>
    /\ period_args.year = 1995
    /\ period_args.then = 2026
    /\ period_result.query = <<(<<"format", <<"csv">>>>),
                               (<<"format", <<"jsondata">>>>),
                               (<<"startPeriod", <<"2026", "-Q", "1">>>>),
                               (<<"endPeriod", <<"2026", "-Q", "4">>>>)>>


\* a summary that accounts for its first k years, against the artifacts in files
Accounted(sm, k, files) ==
    /\ sm.totals.ok + sm.totals.error = k
    /\ Len(sm.years) = k
    /\ Len(sm.errors) = sm.totals.error
    /\ \A j \in 1..k :
         /\ sm.years[j].year = 1995 + (j - 1)
         /\ sm.years[j].year \in DOMAIN files
         /\ sm.years[j].status = files[sm.years[j].year].status
         /\ sm.years[j].error_type = files[sm.years[j].year].error_type
         /\ sm.years[j].recommended_action = files[sm.years[j].year].recommended_action

\* C18: while download_dataset runs, the summary accounts for the k years
\* processed so far: totals.ok + totals.error = k = the length of years, the
\* length of errors is totals.error, years lists the k years in ascending
\* order and agrees with the artifacts written; a written summary has
\* k = 32, and the report of run_all has ok_years + error_years = 32 times
\* its datasets.
C18_SummaryAccounts ==
    /\ pc \in {"year", "throttle", "request", "retrying", "backoff", "classify"} =>
         Accounted(summary, year - 1995, year_files[total])
    /\ pc = "summary" => Accounted(summary, 32, year_files[total])
    /\ \A i \in DOMAIN summary_files : Accounted(summary_files[i], 32, year_files[i])
    /\ run_report.totals.ok_years + run_report.totals.error_years
          = 32 * run_report.totals.datasets
    /\ run_report.totals.datasets = Len(run_report.datasets)
    /\ pc = "done" => /\ report_file = <<run_report>>
                      /\ run_report.totals.datasets = Len(catalog.datasets)

C18_Witness ==
    /\ pc = "done"
    /\ report_file[1].totals = [datasets |-> 2, ok_years |-> 63, error_years |-> 1]
    /\ Len(report_file[1].datasets[1].errors) = 1
    /\ report_file[1].datasets[1].errors[1].error_type = "no_data_in_range"


\* 2 to the power k - 1, for the waits the specification lists
Doubled(k) == CASE k = 1 -> 1 [] k = 2 -> 2 [] k = 3 -> 4 [] k = 4 -> 8 [] OTHER -> 16

\* C19: the wait after the k-th failed attempt, k = 1..5, is 1 second
\* doubled k - 1 times plus a jitter that is not negative, and it is at most
\* 30 seconds (a second is 5 ticks); there is no wait before the first
\* attempt and none after the 6th, so a call waits at most 5 times.
C19_BackoffSchedule ==
    /\ pc = "backoff" =>
         /\ attempt \in 1..5
         /\ backoff >= 5 * Doubled(attempt)
         /\ backoff <= 5 * Doubled(attempt) + 5
         /\ backoff <= 30 * 5
    /\ pc # "backoff" => backoff = 0
    /\ backoff_sleeps <= 5
    /\ attempt >= 1 => backoff_sleeps = attempt - 1
    /\ attempt <= 6

C19_Witness ==
    /\ pc = "backoff"
    /\ attempt = 5
    /\ backoff = 83
    /\ backoff_sleeps = 4


\* C20: when the adapter raised for a year, the artifact of the year has an
\* empty request mapping and a null response, and the entry added to the
\* errors of the summary has the same empty request; no artifact records a
\* request status_code out of {429, 500, 502, 503, 504}.
C20_FailedExchangeNotRecorded ==
    /\ [](\A i \in 1..Len(catalog.datasets) : \A y \in DOMAIN year_files[i] :
            "status_code" \in DOMAIN year_files[i][y].request
               => year_files[i][y].request.status_code \notin RetriedCodes)
    /\ [][(pc = "classify" /\ captured_error # NoException) =>
            /\ DOMAIN year_files'[total][year].request = {}
            /\ year_files'[total][year].response = JNull
            /\ Len(summary'.errors) = Len(summary.errors) + 1
            /\ summary'.errors[Len(summary'.errors)].year = year
            /\ DOMAIN summary'.errors[Len(summary'.errors)].request = {}
         ]_vars

C20_Witness ==
    /\ pc = "year"
    /\ year = 1996
    /\ 1995 \in DOMAIN year_files[total]
    /\ year_files[total][1995].error_type = "upstream_server_error"
    /\ DOMAIN year_files[total][1995].request = {}
    /\ year_files[total][1995].response = JNull
    /\ DOMAIN summary.errors[1].request = {}


\* C21: an exception of an attempt that is neither a RequestException nor a
\* RetryableRequestError is not retried: no backoff wait and no further attempt
\* follow it, download_dataset captures it as it is, and the year is written
\* as error, transient_retries_exhausted, retry_later with the text of the
\* exception, also when fewer than 6 attempts were made.
C21_OtherExceptionNotRetried ==
    /\ [](last_outcome.cls = "Exception" =>
            /\ pc \in {"retrying", "classify"}
            /\ backoff = 0
            /\ http_attempts = last_outcome.attempt
            /\ backoff_sleeps = last_outcome.attempt - 1
            /\ pc = "classify" => captured_error = last_outcome)
    /\ [][(pc = "classify" /\ captured_error.cls = "Exception") =>
            /\ pc' \in {"year", "summary"}
            /\ Triple(year_files'[total][year])
                 = <<"error", "transient_retries_exhausted", "retry_later">>
            /\ year_files'[total][year].message = captured_error.text
         ]_vars

C21_Witness ==
    /\ pc = "year"
    /\ year = 1996
    /\ 1995 \in DOMAIN year_files[total]
    /\ year_files[total][1995].error_type = "transient_retries_exhausted"
    /\ year_files[total][1995].message = OtherException(1).text
    /\ fault_years = 1


\* C22: _classify_result is never reached with no exception and a status code
\* out of {429, 500, 502, 503, 504}; a year is written as rate_limited only
\* from a RetryableRequestError with code 429 raised by the 6th attempt; and
\* a response with status 501 ends the call, after exactly one attempt when
\* every answer was 501, and the year is written as error,
\* upstream_server_error, retry_later.
C22_RetriedCodesReachClassifierAsExceptions ==
    /\ [](/\ (pc = "classify" /\ captured_error = NoException)
               => status_code \notin RetriedCodes
          /\ (http_attempts > 0 /\ last_code = 501)
               => /\ pc = "classify"
                  /\ captured_error = NoException
                  /\ status_code = 501
                  /\ codes_agree => http_attempts = 1)
    /\ [][(pc = "classify" /\ pc' \in {"year", "summary"}) =>
            /\ year_files'[total][year].error_type = "rate_limited"
                 => /\ captured_error.cls = "RetryableRequestError"
                    /\ captured_error.status_code = 429
                    /\ captured_error.attempt = 6
                    /\ http_attempts = 6
            /\ (captured_error = NoException /\ status_code = 501)
                 => Triple(year_files'[total][year])
                      = <<"error", "upstream_server_error", "retry_later">>
         ]_vars

C22_Witness ==
    /\ pc = "year"
    /\ year = 1996
    /\ 1995 \in DOMAIN year_files[total]
    /\ "status_code" \in DOMAIN year_files[total][1995].request
    /\ year_files[total][1995].request.status_code = 501
    /\ year_files[total][1995].error_type = "upstream_server_error"

====
